---- MODULE Spec2Model ----
(***************************************************************************)
(* Model of json_or_protobuf (src/src/lib.rs): the JsonOrProtobuf<T>       *)
(* wrapper, its constructors, decompose, the TryFrom / Into conversions,   *)
(* the FromRequest extractor and the IntoResponse renderer.                *)
(*                                                                         *)
(* The wrapper is a set of one-shot functions.  The state machine below    *)
(* is one call path that owns at most one payload (or one decomposed       *)
(* pair) at a time: it constructs a payload, consumes it, and finishes.    *)
(***************************************************************************)
EXTENDS Integers, Sequences, FiniteSets, TLC

\* ------------------------------------------------------------------ bounds
\* Payload values of type T are 0..MaxValue.
MaxValue == 2

Values == 0..MaxValue

\* --------------------------------------------------------------- constants
CONTENT_TYPE_PROTOBUF == "application/octet-stream"

CONTENT_TYPE_JSON == "application/json"

\* http::StatusCode::BAD_REQUEST
BAD_REQUEST == 400

\* http header names used as keys of a HeaderMap
ACCEPT == "accept"

CONTENT_TYPE == "content-type"

\* ------------------------------------------------------- generic Rust types
None == [some |-> FALSE]

Some(x) == [some |-> TRUE, val |-> x]

Ok(x) == [ok |-> TRUE, val |-> x]

Err(e) == [ok |-> FALSE, err |-> e]

\* ------------------------------------------------------------- input space
\* Strings a caller or a peer may supply as a descriptor: the two literals,
\* unrelated media types, and strings that differ from a literal only in
\* letter case or by an appended parameter.
CaseOrParamVariants ==
    { "Application/JSON", "application/json; charset=utf-8",
      "APPLICATION/OCTET-STREAM", "application/octet-stream; q=0.9" }

Strings ==
    { CONTENT_TYPE_PROTOBUF, CONTENT_TYPE_JSON, "text/plain", "text/xml" }
        \cup CaseOrParamVariants

\* An http::HeaderValue: its octets, and whether every octet is visible
\* ASCII.  A value with opaque = TRUE holds the octets of `bytes` followed by
\* an octet outside visible ASCII.
HeaderValues == [bytes : Strings, opaque : BOOLEAN]

\* A HeaderMap restricted to the two headers the crate reads.
HeaderMaps == [ {ACCEPT, CONTENT_TYPE} -> {None} \cup { Some(h) : h \in HeaderValues } ]

\* What a codec extractor returns for a body: the extracted value, or the
\* extractor's own rejection (an HTTP status of its choosing).
CodecRejections == { 400, 422 }

CodecResults == { Ok(v) : v \in Values } \cup { Err(s) : s \in CodecRejections }

\* A message body, characterised by what each of the two codecs extracts
\* from it.
Bodies == [protobuf : CodecResults, json : CodecResults]

Requests == [headers : HeaderMaps, body : Bodies]

\* ------------------------------------------------------------ enum variants
Protobuf(body) == [variant |-> "Protobuf", body |-> body]

Json(body) == [variant |-> "Json", body |-> body]

Payloads == { Protobuf(v) : v \in Values } \cup { Json(v) : v \in Values }

ContentTypeError(s) == [type |-> "ContentTypeError", inner |-> s]

StatusCode(c) == [type |-> "StatusCode", code |-> c]

\* --------------------------------------------------------- impl JsonOrProtobuf
\* new with the two match arms' variants exchanged
new_swapped(body, content_type) ==
    CASE content_type = CONTENT_TYPE_PROTOBUF -> Ok(Json(body))
      [] content_type = CONTENT_TYPE_JSON -> Ok(Protobuf(body))
      [] OTHER -> Err(ContentTypeError(content_type))

\* new whose fallback arm defaults to the text variant instead of failing
new_lenient(body, content_type) ==
    CASE content_type = CONTENT_TYPE_PROTOBUF -> Ok(Protobuf(body))
      [] OTHER -> Ok(Json(body))

new(body, content_type) ==
    CASE content_type = CONTENT_TYPE_PROTOBUF -> Ok(Protobuf(body))
      [] content_type = CONTENT_TYPE_JSON -> Ok(Json(body))
      [] OTHER -> Err(ContentTypeError(content_type))

\* A media-type normalisation the crate does not perform: lower-case the
\* string and drop everything from the first ";".
Normalised(s) ==
    CASE s \in {"Application/JSON", "application/json; charset=utf-8"} -> CONTENT_TYPE_JSON
      [] s \in {"APPLICATION/OCTET-STREAM", "application/octet-stream; q=0.9"} -> CONTENT_TYPE_PROTOBUF
      [] OTHER -> s

\* HeaderValue::to_str().ok()
to_str_ok(header_value) ==
    IF header_value.opaque THEN None ELSE Some(header_value.bytes)

\* header lookup that normalises the media type before it is compared
header_str_normalised(headers, name) ==
    IF headers[name].some /\ ~headers[name].val.opaque
    THEN Some(Normalised(headers[name].val.bytes))
    ELSE None

\* headers.get(name).and_then(|v| v.to_str().ok())
header_str(headers, name) ==
    IF headers[name].some THEN to_str_ok(headers[name].val) ELSE None

\* from_accept_header that prefers the binary variant unless text is asked for
from_accept_header_prefers_binary(body, headers) ==
    LET accept == header_str(headers, ACCEPT)
    IN  IF accept = Some(CONTENT_TYPE_JSON)
        THEN Json(body)
        ELSE Protobuf(body)

from_accept_header(body, headers) ==
    LET accept == header_str(headers, ACCEPT)
    IN  IF accept = Some(CONTENT_TYPE_PROTOBUF)
        THEN Protobuf(body)
        ELSE Json(body)

\* decompose that reports the text descriptor with a charset parameter
decompose_charset(self) ==
    IF self.variant = "Protobuf"
    THEN <<self.body, CONTENT_TYPE_PROTOBUF>>
    ELSE <<self.body, "application/json; charset=utf-8">>

decompose(self) ==
    IF self.variant = "Protobuf"
    THEN <<self.body, CONTENT_TYPE_PROTOBUF>>
    ELSE <<self.body, CONTENT_TYPE_JSON>>

try_from(value) == new(value[1], value[2])

into(self) == decompose(self)

\* ------------------------------------------------------------ codec calls
\* request.extract::<Protobuf<T>, _>().await
ProtobufExtract(body) == body.protobuf

\* request.extract::<Json<T>, _>().await
JsonExtract(body) == body.json

\* from_request that, like from_accept_header, falls back to the text codec
\* when the descriptor is missing or unrecognized
from_request_lenient(request) ==
    LET content_type == header_str(request.headers, CONTENT_TYPE)
    IN  IF content_type = Some("application/octet-stream")
        THEN LET r == ProtobufExtract(request.body)
             IN  [ result    |-> IF r.ok THEN Ok(Protobuf(r.val))
                                 ELSE Err(StatusCode(BAD_REQUEST)),
                   extracted |-> <<"Protobuf">> ]
        ELSE LET r == JsonExtract(request.body)
             IN  [ result    |-> IF r.ok THEN Ok(Json(r.val))
                                 ELSE Err(StatusCode(BAD_REQUEST)),
                   extracted |-> <<"Json">> ]

\* from_request that wraps the extracted value in the other variant
from_request_wrong_variant(request) ==
    LET content_type == header_str(request.headers, CONTENT_TYPE)
    IN  CASE content_type = Some("application/octet-stream") ->
               LET r == ProtobufExtract(request.body)
               IN  [ result    |-> IF r.ok THEN Ok(Json(r.val))
                                   ELSE Err(StatusCode(BAD_REQUEST)),
                     extracted |-> <<"Protobuf">> ]
          [] content_type = Some("application/json") ->
               LET r == JsonExtract(request.body)
               IN  [ result    |-> IF r.ok THEN Ok(Protobuf(r.val))
                                   ELSE Err(StatusCode(BAD_REQUEST)),
                     extracted |-> <<"Json">> ]
          [] OTHER ->
               [ result |-> Err(StatusCode(BAD_REQUEST)), extracted |-> <<>> ]

\* from_request that passes the codec's own rejection status through
\* instead of mapping it to BAD_REQUEST
from_request_codec_status(request) ==
    LET content_type == header_str(request.headers, CONTENT_TYPE)
    IN  CASE content_type = Some("application/octet-stream") ->
               LET r == ProtobufExtract(request.body)
               IN  [ result    |-> IF r.ok THEN Ok(Protobuf(r.val))
                                   ELSE Err(StatusCode(r.err)),
                     extracted |-> <<"Protobuf">> ]
          [] content_type = Some("application/json") ->
               LET r == JsonExtract(request.body)
               IN  [ result    |-> IF r.ok THEN Ok(Json(r.val))
                                   ELSE Err(StatusCode(r.err)),
                     extracted |-> <<"Json">> ]
          [] OTHER ->
               [ result |-> Err(StatusCode(BAD_REQUEST)), extracted |-> <<>> ]

\* from_request that reports an unrecognized descriptor as new does
from_request_content_type_error(request) ==
    LET content_type == header_str(request.headers, CONTENT_TYPE)
    IN  CASE content_type = Some("application/octet-stream") ->
               LET r == ProtobufExtract(request.body)
               IN  [ result    |-> IF r.ok THEN Ok(Protobuf(r.val))
                                   ELSE Err(StatusCode(BAD_REQUEST)),
                     extracted |-> <<"Protobuf">> ]
          [] content_type = Some("application/json") ->
               LET r == JsonExtract(request.body)
               IN  [ result    |-> IF r.ok THEN Ok(Json(r.val))
                                   ELSE Err(StatusCode(BAD_REQUEST)),
                     extracted |-> <<"Json">> ]
          [] OTHER ->
               [ result    |-> IF content_type.some
                               THEN Err(ContentTypeError(content_type.val))
                               ELSE Err(StatusCode(BAD_REQUEST)),
                 extracted |-> <<>> ]

\* FromRequest::from_request: the result, and the codec extractions it
\* performed on the request body, in order.
from_request(request) ==
    LET content_type == header_str(request.headers, CONTENT_TYPE)
    IN  CASE content_type = Some("application/octet-stream") ->
               LET r == ProtobufExtract(request.body)
               IN  [ result    |-> IF r.ok THEN Ok(Protobuf(r.val))
                                   ELSE Err(StatusCode(BAD_REQUEST)),
                     extracted |-> <<"Protobuf">> ]
          [] content_type = Some("application/json") ->
               LET r == JsonExtract(request.body)
               IN  [ result    |-> IF r.ok THEN Ok(Json(r.val))
                                   ELSE Err(StatusCode(BAD_REQUEST)),
                     extracted |-> <<"Json">> ]
          [] OTHER ->
               [ result |-> Err(StatusCode(BAD_REQUEST)), extracted |-> <<>> ]

\* Protobuf(p).into_response(): the binary codec's rendering of p; `other`
\* is what the text codec would make of those octets.
ProtobufIntoResponse(p, other) ==
    [ content_type |-> CONTENT_TYPE_PROTOBUF,
      codec        |-> "Protobuf",
      body         |-> [protobuf |-> Ok(p), json |-> other] ]

\* Json(j).into_response(): the text codec's rendering of j; `other` is what
\* the binary codec would make of that text.
JsonIntoResponse(j, other) ==
    [ content_type |-> CONTENT_TYPE_JSON,
      codec        |-> "Json",
      body         |-> [protobuf |-> other, json |-> Ok(j)] ]

\* into_response that renders both variants through the text codec
into_response_always_json(self, other) ==
    JsonIntoResponse(self.body, other)

into_response(self, other) ==
    IF self.variant = "Protobuf"
    THEN ProtobufIntoResponse(self.body, other)
    ELSE JsonIntoResponse(self.body, other)

\* -------------------------------------------------------------------- state
VARIABLES
    pc,        \* the operation that last acted, "idle" between call paths
    args,      \* the arguments of that operation
    ret,       \* what it returned
    held,      \* Option: the payload the call path owns
    pair,      \* Option: the (value, descriptor) pair the call path owns
    extracted, \* codec extractions performed on the body by the last call
    origin,    \* how the owned payload / pair was first constructed
    decomposed \* Option: the payload the owned pair was decomposed from

vars == <<pc, args, ret, held, pair, extracted, origin, decomposed>>

NoArgs == [none |-> TRUE]

NoOrigin == [op |-> "none"]

Init ==
    /\ pc = "idle"
    /\ args = NoArgs
    /\ ret = NoArgs
    /\ held = None
    /\ pair = None
    /\ extracted = <<>>
    /\ origin = NoOrigin
    /\ decomposed = None

\* JsonOrProtobuf::new(body, content_type) on fresh arguments
CallNew ==
    /\ pc = "idle"
    /\ \E body \in Values, content_type \in Strings :
         LET r == new(body, content_type)
         IN  /\ args' = [body |-> body, content_type |-> content_type]
             /\ ret' = r
             /\ held' = IF r.ok THEN Some(r.val) ELSE None
             /\ origin' = IF r.ok
                          THEN [op |-> "new", body |-> body, content_type |-> content_type]
                          ELSE NoOrigin
    /\ pc' = "new"
    /\ extracted' = <<>>
    /\ UNCHANGED <<pair, decomposed>>

\* JsonOrProtobuf::from_accept_header(body, &headers)
CallFromAcceptHeader ==
    /\ pc = "idle"
    /\ \E body \in Values, headers \in HeaderMaps :
         LET p == from_accept_header(body, headers)
         IN  /\ args' = [body |-> body, headers |-> headers]
             /\ ret' = p
             /\ held' = Some(p)
    /\ pc' = "from_accept_header"
    /\ origin' = [op |-> "from_accept_header"]
    /\ extracted' = <<>>
    /\ UNCHANGED <<pair, decomposed>>

\* Application code naming a variant: JsonOrProtobuf::Protobuf(v) / ::Json(v)
CallVariant ==
    /\ pc = "idle"
    /\ \E p \in Payloads :
         /\ args' = [variant |-> p.variant, body |-> p.body]
         /\ ret' = p
         /\ held' = Some(p)
    /\ pc' = "variant"
    /\ origin' = [op |-> "variant"]
    /\ extracted' = <<>>
    /\ UNCHANGED <<pair, decomposed>>

\* <JsonOrProtobuf<T> as FromRequest<S>>::from_request(request, &state)
CallFromRequest ==
    /\ pc = "idle"
    /\ \E request \in Requests :
         LET r == from_request(request)
         IN  /\ args' = [request |-> request]
             /\ ret' = r.result
             /\ extracted' = r.extracted
             /\ held' = IF r.result.ok THEN Some(r.result.val) ELSE None
             /\ origin' = IF r.result.ok THEN [op |-> "from_request"] ELSE NoOrigin
    /\ pc' = "from_request"
    /\ UNCHANGED <<pair, decomposed>>

\* payload.decompose(): consumes the payload
CallDecompose ==
    /\ held.some
    /\ args' = [self |-> held.val]
    /\ ret' = decompose(held.val)
    /\ pair' = Some(decompose(held.val))
    /\ decomposed' = held
    /\ held' = None
    /\ pc' = "decompose"
    /\ extracted' = <<>>
    /\ UNCHANGED origin

\* let (value, descriptor) = payload.into(): consumes the payload
CallInto ==
    /\ held.some
    /\ args' = [self |-> held.val]
    /\ ret' = into(held.val)
    /\ pair' = Some(into(held.val))
    /\ decomposed' = held
    /\ held' = None
    /\ pc' = "into"
    /\ extracted' = <<>>
    /\ UNCHANGED origin

\* JsonOrProtobuf::new(value, &descriptor) on the pair a decompose returned
CallNewOnPair ==
    /\ pair.some
    /\ LET r == new(pair.val[1], pair.val[2])
       IN  /\ args' = [body |-> pair.val[1], content_type |-> pair.val[2]]
           /\ ret' = r
           /\ held' = IF r.ok THEN Some(r.val) ELSE None
    /\ pair' = None
    /\ pc' = "new_on_pair"
    /\ extracted' = <<>>
    /\ UNCHANGED <<origin, decomposed>>

\* JsonOrProtobuf::try_from((body, content_type)) on fresh arguments
CallTryFrom ==
    /\ pc = "idle"
    /\ \E body \in Values, content_type \in Strings :
         LET r == try_from(<<body, content_type>>)
         IN  /\ args' = [value |-> <<body, content_type>>]
             /\ ret' = r
             /\ held' = IF r.ok THEN Some(r.val) ELSE None
             /\ origin' = IF r.ok
                          THEN [op |-> "try_from", body |-> body, content_type |-> content_type]
                          ELSE NoOrigin
    /\ pc' = "try_from"
    /\ extracted' = <<>>
    /\ UNCHANGED <<pair, decomposed>>

\* JsonOrProtobuf::try_from(pair) on the pair a decompose returned
CallTryFromOnPair ==
    /\ pair.some
    /\ LET r == try_from(pair.val)
       IN  /\ args' = [value |-> pair.val]
           /\ ret' = r
           /\ held' = IF r.ok THEN Some(r.val) ELSE None
    /\ pair' = None
    /\ pc' = "try_from_on_pair"
    /\ extracted' = <<>>
    /\ UNCHANGED <<origin, decomposed>>

\* payload.into_response(): consumes the payload
CallIntoResponse ==
    /\ held.some
    /\ \E other \in CodecResults :
         ret' = into_response(held.val, other)
    /\ args' = [self |-> held.val]
    /\ held' = None
    /\ pc' = "into_response"
    /\ extracted' = <<>>
    /\ UNCHANGED <<pair, origin, decomposed>>

\* The call path ends: whatever it still owns is dropped.
Finish ==
    /\ pc # "idle"
    /\ pc' = "idle"
    /\ args' = NoArgs
    /\ ret' = NoArgs
    /\ held' = None
    /\ pair' = None
    /\ extracted' = <<>>
    /\ origin' = NoOrigin
    /\ decomposed' = None

Next ==
    \/ CallNew
    \/ CallFromAcceptHeader
    \/ CallVariant
    \/ CallFromRequest
    \/ CallDecompose
    \/ CallInto
    \/ CallNewOnPair
    \/ CallTryFrom
    \/ CallTryFromOnPair
    \/ CallIntoResponse
    \/ Finish

Spec == Init /\ [][Next]_vars

\* =================================================================== claims
Recognized == { CONTENT_TYPE_PROTOBUF, CONTENT_TYPE_JSON }

\* The variant that belongs to a recognized descriptor.
VariantOf(d) == IF d = CONTENT_TYPE_PROTOBUF THEN "Protobuf" ELSE "Json"

\* TRUE iff header `name` of `headers` is present, readable as a string and
\* its text is in set S.
ReadableIn(headers, name, S) ==
    /\ headers[name].some
    /\ ~headers[name].val.opaque
    /\ headers[name].val.bytes \in S

\* C1: for every value v and each recognized descriptor d, new(v, d)
\* succeeds, and decomposing the payload it built returns exactly <<v, d>>.
C1_RoundTrip ==
    /\ (pc = "new" /\ args.content_type \in Recognized) =>
          /\ ret.ok
          /\ held = Some(ret.val)
    /\ (pc = "decompose" /\ origin.op = "new") =>
          /\ origin.content_type \in Recognized
          /\ ret = <<origin.body, origin.content_type>>

C1_Witness ==
    /\ pc = "decompose"
    /\ origin.op = "new"
    /\ ret = <<1, CONTENT_TYPE_PROTOBUF>>

\* C2: for every value and every string s that is not a recognized
\* descriptor, new fails with ContentTypeError carrying exactly s, and no
\* payload is produced.
C2_RejectsUnknown ==
    (pc = "new" /\ args.content_type \notin Recognized) =>
        /\ ret = Err(ContentTypeError(args.content_type))
        /\ held = None

C2_Witness ==
    /\ pc = "new"
    /\ args.content_type = "text/plain"
    /\ ret = Err(ContentTypeError("text/plain"))

\* C3: from_accept_header never fails; it returns Protobuf(body) iff the
\* Accept header is present, readable and exactly the binary descriptor,
\* and Json(body) with the same body in every other case.
C3_PreferenceDefaultsToText ==
    pc = "from_accept_header" =>
        /\ ret \in Payloads
        /\ held = Some(ret)
        /\ ret.body = args.body
        /\ (ret.variant = "Protobuf") <=>
              ReadableIn(args.headers, ACCEPT, {CONTENT_TYPE_PROTOBUF})
        /\ (ret.variant = "Json") <=>
              ~ReadableIn(args.headers, ACCEPT, {CONTENT_TYPE_PROTOBUF})

C3_Witness ==
    /\ pc = "from_accept_header"
    /\ args.headers[ACCEPT] = Some([bytes |-> CONTENT_TYPE_PROTOBUF, opaque |-> TRUE])
    /\ ret = Json(2)

\* C4: a request whose Content-Type is missing, unreadable or not a
\* recognized descriptor is rejected with BAD_REQUEST, no codec extraction
\* is performed and no payload is produced.
C4_DecodeStrict ==
    (pc = "from_request"
       /\ ~ReadableIn(args.request.headers, CONTENT_TYPE, Recognized)) =>
        /\ ret = Err(StatusCode(BAD_REQUEST))
        /\ extracted = <<>>
        /\ held = None

C4_Witness ==
    /\ pc = "from_request"
    /\ args.request.headers[CONTENT_TYPE] = Some([bytes |-> "text/xml", opaque |-> FALSE])
    /\ args.request.body.json.ok
    /\ ret = Err(StatusCode(BAD_REQUEST))

\* C5: a request with a recognized Content-Type whose matching codec
\* extracts a value is decoded by exactly one extraction, that of the
\* matching codec, into the matching variant wrapping the extracted value.
C5_DecodeDispatch ==
    /\ (pc = "from_request"
          /\ ReadableIn(args.request.headers, CONTENT_TYPE, {CONTENT_TYPE_PROTOBUF})
          /\ args.request.body.protobuf.ok) =>
          /\ extracted = <<"Protobuf">>
          /\ ret = Ok(Protobuf(args.request.body.protobuf.val))
          /\ held = Some(ret.val)
    /\ (pc = "from_request"
          /\ ReadableIn(args.request.headers, CONTENT_TYPE, {CONTENT_TYPE_JSON})
          /\ args.request.body.json.ok) =>
          /\ extracted = <<"Json">>
          /\ ret = Ok(Json(args.request.body.json.val))
          /\ held = Some(ret.val)
    /\ pc = "from_request" => Len(extracted) <= 1

C5_Witness ==
    /\ pc = "from_request"
    /\ ReadableIn(args.request.headers, CONTENT_TYPE, {CONTENT_TYPE_PROTOBUF})
    /\ args.request.body = [protobuf |-> Ok(1), json |-> Ok(2)]
    /\ ret = Ok(Protobuf(1))

\* C6: when the Content-Type is recognized but the matching codec fails,
\* from_request returns BAD_REQUEST, produces no payload and does not try the
\* other codec; every rejection of from_request is that same value.
C6_CodecFailure ==
    /\ (pc = "from_request"
          /\ ReadableIn(args.request.headers, CONTENT_TYPE, {CONTENT_TYPE_PROTOBUF})
          /\ ~args.request.body.protobuf.ok) =>
          /\ ret = Err(StatusCode(BAD_REQUEST))
          /\ held = None
          /\ extracted = <<"Protobuf">>
    /\ (pc = "from_request"
          /\ ReadableIn(args.request.headers, CONTENT_TYPE, {CONTENT_TYPE_JSON})
          /\ ~args.request.body.json.ok) =>
          /\ ret = Err(StatusCode(BAD_REQUEST))
          /\ held = None
          /\ extracted = <<"Json">>
    /\ (pc = "from_request" /\ ~ret.ok) => ret = Err(StatusCode(BAD_REQUEST))

C6_Witness ==
    /\ pc = "from_request"
    /\ ReadableIn(args.request.headers, CONTENT_TYPE, {CONTENT_TYPE_JSON})
    /\ args.request.body = [protobuf |-> Ok(0), json |-> Err(422)]
    /\ ret = Err(StatusCode(BAD_REQUEST))

\* C7: into_response renders through the codec of the payload's variant; the
\* response declares the descriptor decompose reports for that payload, and
\* its body, extracted with that codec, is the payload's value.
C7_RenderFidelity ==
    pc = "into_response" =>
        /\ ret.codec = args.self.variant
        /\ ret.content_type = decompose(args.self)[2]
        /\ ret.content_type =
              (IF args.self.variant = "Protobuf"
               THEN CONTENT_TYPE_PROTOBUF ELSE CONTENT_TYPE_JSON)
        /\ (IF args.self.variant = "Protobuf"
            THEN ProtobufExtract(ret.body)
            ELSE JsonExtract(ret.body)) = Ok(args.self.body)

C7_Witness ==
    /\ pc = "into_response"
    /\ args.self = Protobuf(2)
    /\ ret.content_type = CONTENT_TYPE_PROTOBUF
    /\ ret.body.protobuf = Ok(2)

\* C8: a string that differs from a recognized descriptor only in letter
\* case or by an appended parameter is unrecognized in all three entry
\* points: new fails, from_request rejects without extracting, and
\* from_accept_header falls back to Json.
C8_ExactMatch ==
    /\ (pc \in {"new", "try_from"} /\ ret.ok) =>
          LET d == IF pc = "new" THEN args.content_type ELSE args.value[2]
          IN  d \notin CaseOrParamVariants
    /\ (pc = "new" /\ args.content_type \in CaseOrParamVariants) =>
          ret = Err(ContentTypeError(args.content_type))
    /\ (pc = "from_request"
          /\ ReadableIn(args.request.headers, CONTENT_TYPE, CaseOrParamVariants)) =>
          /\ ret = Err(StatusCode(BAD_REQUEST))
          /\ extracted = <<>>
    /\ (pc = "from_accept_header"
          /\ ReadableIn(args.headers, ACCEPT, CaseOrParamVariants)) =>
          ret = Json(args.body)

C8_Witness ==
    /\ pc = "from_accept_header"
    /\ args.headers[ACCEPT] = Some([bytes |-> "APPLICATION/OCTET-STREAM", opaque |-> FALSE])
    /\ ret = Json(0)

\* C9: ContentTypeError is returned only by new (directly or through
\* try_from), the BAD_REQUEST rejection only by from_request; the other
\* operations always return a payload, a pair or a response; a failure
\* leaves no payload behind and no call extracts the body more than once.
C9_ErrorConfinement ==
    /\ pc \in {"new", "new_on_pair", "try_from", "try_from_on_pair"} =>
          \/ ret.ok /\ ret.val \in Payloads /\ held = Some(ret.val)
          \/ ~ret.ok /\ ret.err.type = "ContentTypeError" /\ held = None
    /\ pc = "from_request" =>
          \/ ret.ok /\ ret.val \in Payloads /\ held = Some(ret.val)
          \/ ~ret.ok /\ ret.err = StatusCode(BAD_REQUEST) /\ held = None
    /\ pc \in {"from_accept_header", "variant"} =>
          ret \in Payloads /\ held = Some(ret)
    /\ pc \in {"decompose", "into"} =>
          ret \in Values \X Recognized /\ pair = Some(ret)
    /\ pc = "into_response" =>
          ret.content_type \in Recognized
    /\ Len(extracted) <= 1
    /\ Len(extracted) = 1 => pc = "from_request"

C9_Witness ==
    /\ pc = "from_request"
    /\ ~ret.ok
    /\ args.request.headers[CONTENT_TYPE] = Some([bytes |-> "text/plain", opaque |-> FALSE])
    /\ held = None

\* C10: decompose only reports recognized descriptors, so new (and try_from)
\* applied to the pair a payload decomposed into never fails and rebuilds
\* that payload, whatever built it; try_from agrees with new and into with
\* decompose.
C10_InverseRoundTrip ==
    /\ pc \in {"decompose", "into"} =>
          /\ ret[2] \in Recognized
          /\ ret = decompose(args.self)
          /\ ret[1] = args.self.body
          /\ VariantOf(ret[2]) = args.self.variant
    /\ pc \in {"new_on_pair", "try_from_on_pair"} =>
          /\ decomposed.some
          /\ ret = Ok(decomposed.val)
          /\ held = decomposed
    /\ pc = "try_from" => ret = new(args.value[1], args.value[2])

C10_Witness ==
    /\ pc = "try_from_on_pair"
    /\ origin.op = "from_request"
    /\ ret = Ok(Json(1))

====
